---------------------------- MODULE Spec2Model ----------------------------
(***************************************************************************)
(* A model of the RNN cell (code/rnn.py) and of the training driver        *)
(* (code/runner.py).                                                       *)
(*                                                                         *)
(* Numbers.  The program computes with float64.  The model computes with   *)
(* fixed-point numbers: the integer n stands for n / ONE.  Sums are exact, *)
(* a product is rounded to the nearest multiple of 1 / ONE.  Vectors are    *)
(* 1-based sequences of numbers, matrices are sequences of rows.  Python's *)
(* 0-based indexing, with its wrap-around for negative indices, is kept by *)
(* PyGet and PyValid.                                                      *)
(*                                                                         *)
(* Two specifications share the module.  Spec drives the RNN's methods and *)
(* the Runner's loss functions on one model instance.  SpecTrain drives    *)
(* Runner.train / Runner.train_np, whose calls into the model are kept as  *)
(* an abstract parameter version and call counters.                        *)
(***************************************************************************)
EXTENDS Integers, Sequences, FiniteSets, TLC

VARIABLES
    \* ---- the RNN instance (rnn.py, RNN.__init__)
    vocab_size, hidden_dims, out_vocab_size,
    U, V, W,
    deltaU, deltaV, deltaW,
    \* ---- the arguments and the result of the last call made on it
    x, d, y, s, steps,
    lastOp,         \* the method called last
    ret,            \* what the call returned or raised
    calls,          \* accumulation calls made so far
    \* ---- Runner.train / Runner.train_np
    tr              \* the frame of the running train call (a record)

rnnVars == <<vocab_size, hidden_dims, out_vocab_size, U, V, W,
             deltaU, deltaV, deltaW, x, d, y, s, steps, lastOp, ret, calls>>
vars == <<rnnVars, tr>>

(***************************************************************************)
(* Bounds of the model.                                                    *)
(***************************************************************************)
MaxLen == 3         \* longest token sequence
MaxSteps == 2       \* largest truncation depth passed to the BPTT methods
MaxCalls == 2       \* accumulation calls in one behaviour
MaxN == 3           \* most training instances, and largest batch size
MaxBackSteps == 2   \* largest back_steps passed to train
MaxEpochs == 4      \* largest epochs passed to train
MaxLoss == 2        \* dev losses are drawn from 0..MaxLoss
MaxAnneal == 1      \* largest anneal passed to train

(***************************************************************************)
(* Numeric primitives (rnnmath, numpy).                                    *)
(***************************************************************************)
ONE == 4

FxMul(a, b) == (a * b + (ONE \div 2)) \div ONE

Zeros(n) == [k \in 1..n |-> 0]

ZerosMat(rows, cols) == [i \in 1..rows |-> Zeros(cols)]

\* seq[i] as Python evaluates it
PyValid(seq, i) == i >= -Len(seq) /\ i < Len(seq)

PyGet(seq, i) == seq[IF i < 0 THEN Len(seq) + i + 1 ELSE i + 1]

make_onehot(i, n) == [k \in 1..n |-> IF k = i + 1 THEN ONE ELSE 0]

RECURSIVE SumTo(_, _)
SumTo(f, n) == IF n = 0 THEN 0 ELSE f[n] + SumTo(f, n - 1)

\* numpy raises ValueError on operands of different lengths
DotOk(a, b) == Len(a) = Len(b)

Dot(a, b) == SumTo([k \in 1..Len(a) |-> FxMul(a[k], b[k])], Len(a))

MatVec(M, v) == [i \in 1..Len(M) |-> Dot(M[i], v)]

Transpose(M) == [j \in 1..Len(M[1]) |-> [i \in 1..Len(M) |-> M[i][j]]]

Outer(a, b) == [i \in 1..Len(a) |-> [j \in 1..Len(b) |-> FxMul(a[i], b[j])]]

VecAdd(a, b) == [k \in 1..Len(a) |-> a[k] + b[k]]

VecSub(a, b) == [k \in 1..Len(a) |-> a[k] - b[k]]

VecMul(a, b) == [k \in 1..Len(a) |-> FxMul(a[k], b[k])]

MatAdd(A, B) == [i \in 1..Len(A) |-> VecAdd(A[i], B[i])]

\* 1 / (1 + exp(-z)), rounded to the nearest quarter
sigmoid1(z) ==
    IF z >= 2 * ONE THEN ONE
    ELSE IF z >= 3 THEN 3
    ELSE IF z >= -2 THEN 2
    ELSE IF z >= -7 THEN 1
    ELSE 0

sigmoid(v) == [k \in 1..Len(v) |-> sigmoid1(v[k])]

\* grad taken of the net input: sigmoid(v) * (1 - sigmoid(v))
GradOfNetInput(v) == [k \in 1..Len(v) |-> FxMul(sigmoid1(v[k]), ONE - sigmoid1(v[k]))]

\* s * (1 - s)
grad(v) == [k \in 1..Len(v) |-> FxMul(v[k], ONE - v[k])]

RECURSIVE MaxOf(_, _)
MaxOf(f, n) == IF n = 1 THEN f[1] ELSE LET m == MaxOf(f, n - 1) IN IF f[n] > m THEN f[n] ELSE m

\* exp(z) for z <= 0 in units of 1/16, by whole steps of z (e^-1 ~ 6/16, e^-2 ~ 2/16)
ExpNeg(z) ==
    IF z > -(ONE \div 2) THEN 16
    ELSE IF z > -ONE - (ONE \div 2) THEN 6
    ELSE IF z > -2 * ONE - (ONE \div 2) THEN 2
    ELSE 1

\* exp(v_i) / sum_j exp(v_j): every entry is positive
softmax(v) ==
    LET m == MaxOf(v, Len(v))
        e == [k \in 1..Len(v) |-> ExpNeg(v[k] - m)]
        tot == SumTo(e, Len(v))
        q(k) == (ONE * e[k] + (tot \div 2)) \div tot
    IN [k \in 1..Len(v) |-> IF q(k) < 1 THEN 1 ELSE q(k)]

\* -log(p) for a probability p in 1..ONE, rounded to the nearest quarter
NegLog1(p) ==
    IF p >= ONE THEN 0
    ELSE IF p = 3 THEN 1
    ELSE IF p = 2 THEN 3
    ELSE 6

\* np.log(v), elementwise
LogVec(v) == [k \in 1..Len(v) |-> -NegLog1(v[k])]

(***************************************************************************)
(* RNN.__init__: the weights are random; the model draws them from a small *)
(* family of matrices.  The accumulators start as zeros of the same shape. *)
(***************************************************************************)
WeightVals == <<ONE, -ONE, 2 * ONE>>

PatternMat(rows, cols, k) ==
    [i \in 1..rows |-> [j \in 1..cols |->
        WeightVals[(((i - 1) * cols + (j - 1) + k) % Len(WeightVals)) + 1]]]

\* the instances constructed: (vocab_size, hidden_dims, out_vocab_size, weight pattern)
Configs == { <<2, 1, 2, 0>>, <<1, 2, 2, 1>>, <<1, 2, 2, 2>> }

zeros_like(M) == [i \in 1..Len(M) |-> [j \in 1..Len(M[i]) |-> 0]]

Acc(dU, dV, dW) == [deltaU |-> dU, deltaV |-> dV, deltaW |-> dW]

CurAcc == Acc(deltaU, deltaV, deltaW)

ZeroAcc == Acc(zeros_like(U), zeros_like(V), zeros_like(W))

AccAdd(a, b) == Acc(MatAdd(a.deltaU, b.deltaU), MatAdd(a.deltaV, b.deltaV),
                    MatAdd(a.deltaW, b.deltaW))

(***************************************************************************)
(* RNN.predict                                                             *)
(***************************************************************************)
PySet(seq, i, v) == [seq EXCEPT ![i + 1] = v]

\* PredictStep with the hidden state of timestep t stored in row t + 1
PredictStepRowAfter(t, xx, r) ==
    LET one_hot_x == make_onehot(PyGet(xx, t), vocab_size)
        net_in == VecAdd(MatVec(V, one_hot_x), MatVec(U, PyGet(r.s, t)))
        st == sigmoid(net_in)
        net_out == MatVec(W, st)
    IN [y |-> PySet(r.y, t, softmax(net_out)),
        s |-> PySet(r.s, t + 1, st),
        prev0 |-> IF t = 0 THEN PyGet(r.s, t) ELSE r.prev0]

\* one pass of the loop body; r.prev0 keeps the row read as s[t-1] at t = 0
PredictStep(t, xx, r) ==
    LET one_hot_x == make_onehot(PyGet(xx, t), vocab_size)
        net_in == VecAdd(MatVec(V, one_hot_x), MatVec(U, PyGet(r.s, t - 1)))
        st == sigmoid(net_in)
        net_out == MatVec(W, st)
    IN [y |-> PySet(r.y, t, softmax(net_out)),
        s |-> PySet(r.s, t, st),
        prev0 |-> IF t = 0 THEN PyGet(r.s, t - 1) ELSE r.prev0]

RECURSIVE PredictLoop(_, _, _)
PredictLoop(t, xx, r) ==
    IF t >= Len(xx) THEN r ELSE PredictLoop(t + 1, xx, PredictStep(t, xx, r))

predict(xx) ==
    PredictLoop(0, xx, [y |-> ZerosMat(Len(xx), out_vocab_size),
                        s |-> ZerosMat(Len(xx) + 1, hidden_dims),
                        prev0 |-> <<>>])

(***************************************************************************)
(* RNN.acc_deltas: standard back propagation, one label per timestep       *)
(***************************************************************************)
DeltaOut(t, dlabel, yy) == VecSub(make_onehot(dlabel, out_vocab_size), PyGet(yy, t))

DeltaIn(t, delta_out, ss) == VecMul(MatVec(Transpose(W), delta_out), grad(PyGet(ss, t)))

\* AccStep with = in place of +=
AccStepAssign(a, t, xx, dd, yy, ss) ==
    LET delta_out == DeltaOut(t, PyGet(dd, t), yy)
        delta_in == DeltaIn(t, delta_out, ss)
        one_hot_xt == make_onehot(PyGet(xx, t), vocab_size)
    IN Acc(Outer(delta_in, PyGet(ss, t - 1)),
           Outer(delta_in, one_hot_xt),
           Outer(delta_out, PyGet(ss, t)))

AccStep(a, t, xx, dd, yy, ss) ==
    LET delta_out == DeltaOut(t, PyGet(dd, t), yy)
        delta_in == DeltaIn(t, delta_out, ss)
        one_hot_xt == make_onehot(PyGet(xx, t), vocab_size)
    IN Acc(MatAdd(a.deltaU, Outer(delta_in, PyGet(ss, t - 1))),
           MatAdd(a.deltaV, Outer(delta_in, one_hot_xt)),
           MatAdd(a.deltaW, Outer(delta_out, PyGet(ss, t))))

RECURSIVE AccLoop(_, _, _, _, _, _)
AccLoop(a, t, xx, dd, yy, ss) ==
    IF t < 0 THEN a ELSE AccLoop(AccStep(a, t, xx, dd, yy, ss), t - 1, xx, dd, yy, ss)

acc_deltas(a, xx, dd, yy, ss) == AccLoop(a, Len(xx) - 1, xx, dd, yy, ss)

(***************************************************************************)
(* RNN.acc_deltas_np: standard back propagation, one label for the         *)
(* sequence.  The accumulators a of the instance are not read.             *)
(***************************************************************************)
\* acc_deltas_np with the operands of the outer product for deltaW exchanged
acc_deltas_np_swapped(a, xx, dd, yy, ss) ==
    LET t == Len(xx) - 1
        delta_out == DeltaOut(t, PyGet(dd, 0), yy)
        delta_in == DeltaIn(t, delta_out, ss)
        one_hot_xt == make_onehot(PyGet(xx, t), vocab_size)
    IN Acc(Outer(delta_in, PyGet(ss, t - 1)),
           Outer(delta_in, one_hot_xt),
           Outer(PyGet(ss, t), delta_out))

acc_deltas_np(a, xx, dd, yy, ss) ==
    LET t == Len(xx) - 1
        delta_out == DeltaOut(t, PyGet(dd, 0), yy)
        delta_in == DeltaIn(t, delta_out, ss)
        one_hot_xt == make_onehot(PyGet(xx, t), vocab_size)
    IN Acc(Outer(delta_in, PyGet(ss, t - 1)),
           Outer(delta_in, one_hot_xt),
           Outer(delta_out, PyGet(ss, t)))

(***************************************************************************)
(* RNN.acc_deltas_bptt and RNN.acc_deltas_bptt_np.  A call is followed as  *)
(* a record r: the accumulators, the running delta_in, the exception       *)
(* raised (the accumulators keep what was added before it), the lowest     *)
(* index t - t_ used to read x, the passes of the inner loop made (iters)  *)
(* and the lowest index used to read s (minS).                             *)
(***************************************************************************)
Min(a, b) == IF a < b THEN a ELSE b

\* the body of the inner loop
InnerStep(r, t, t_, xx, ss) ==
    IF ~PyValid(xx, t - t_)
    THEN [r EXCEPT !.err = "IndexError", !.minIdx = Min(@, t - t_)]
    ELSE
      LET one_hot_xt == make_onehot(PyGet(xx, t - t_), vocab_size)
          delta_in_T == VecMul(MatVec(Transpose(U), r.delta_in), grad(PyGet(ss, t - t_)))
      IN IF t_ = 0
         THEN [r EXCEPT !.acc = Acc(MatAdd(r.acc.deltaU, Outer(r.delta_in, PyGet(ss, t - 1))),
                                    MatAdd(r.acc.deltaV, Outer(r.delta_in, one_hot_xt)),
                                    r.acc.deltaW),
                        !.minIdx = Min(@, t - t_),
                        !.iters = @ + 1, !.minS = Min(@, t - 1)]
         ELSE [r EXCEPT !.acc = Acc(MatAdd(r.acc.deltaU, Outer(delta_in_T, PyGet(ss, t - t_ - 1))),
                                    MatAdd(r.acc.deltaV, Outer(delta_in_T, one_hot_xt)),
                                    r.acc.deltaW),
                        !.delta_in = delta_in_T,
                        !.minIdx = Min(@, t - t_),
                        !.iters = @ + 1, !.minS = Min(@, t - t_ - 1)]

RECURSIVE InnerLoop(_, _, _, _, _, _)
InnerLoop(r, t, t_, bound, xx, ss) ==
    IF t_ >= bound \/ r.err # "none" THEN r
    ELSE InnerLoop(InnerStep(r, t, t_, xx, ss), t, t_ + 1, bound, xx, ss)

\* range(steps) in place of range(steps+1)
InnerBoundSteps(st, t) == st

\* range(steps+1)
InnerBound(st, t) == st + 1

\* range(steps+1) in place of range(min(steps+1, t))
InnerBoundNpUnclamped(st, t) == st + 1

\* range(min(steps+1, t))
InnerBoundNp(st, t) == Min(st + 1, t)

BpttStart(a, xx) ==
    [acc |-> a, delta_in |-> <<>>, err |-> "none", minIdx |-> Len(xx) - 1,
     iters |-> 0, minS |-> Len(xx) - 1]

BpttOuterStep(r, t, xx, dd, yy, ss, st) ==
    LET delta_out == DeltaOut(t, PyGet(dd, t), yy)
        r1 == [r EXCEPT !.acc = Acc(r.acc.deltaU, r.acc.deltaV,
                                    MatAdd(r.acc.deltaW, Outer(delta_out, PyGet(ss, t)))),
                        !.delta_in = DeltaIn(t, delta_out, ss)]
    IN InnerLoop(r1, t, 0, InnerBound(st, t), xx, ss)

RECURSIVE BpttLoop(_, _, _, _, _, _, _)
BpttLoop(r, t, xx, dd, yy, ss, st) ==
    IF t < 0 \/ r.err # "none" THEN r
    ELSE BpttLoop(BpttOuterStep(r, t, xx, dd, yy, ss, st), t - 1, xx, dd, yy, ss, st)

acc_deltas_bptt(a, xx, dd, yy, ss, st) ==
    BpttLoop(BpttStart(a, xx), Len(xx) - 1, xx, dd, yy, ss, st)

acc_deltas_bptt_np(a, xx, dd, yy, ss, st) ==
    LET t == Len(xx) - 1
        delta_out == DeltaOut(t, PyGet(dd, 0), yy)
        r0 == BpttStart(a, xx)
        r1 == [r0 EXCEPT !.acc = Acc(a.deltaU, a.deltaV, Outer(delta_out, PyGet(ss, t))),
                         !.delta_in = DeltaIn(t, delta_out, ss)]
    IN InnerLoop(r1, t, 0, InnerBoundNp(st, t), xx, ss)

(***************************************************************************)
(* Runner.compute_loss and Runner.compute_loss_np.  The result is the loss *)
(* or the exception raised: make_onehot rejects an index outside its size, *)
(* np.dot rejects operands of different lengths.                           *)
(***************************************************************************)
OneHotOk(i, n) == i >= 0 /\ i < n

\* the size of the one-hot vector of the desired output
LossOneHotSize == vocab_size

\* loss -= np.dot(make_onehot(label, size), np.log(yt))
LossTerm(res, label, yt) ==
    IF res.err # "none" THEN res
    ELSE IF ~OneHotOk(label, LossOneHotSize) THEN [res EXCEPT !.err = "DomainError"]
    ELSE IF ~DotOk(make_onehot(label, LossOneHotSize), LogVec(yt))
         THEN [res EXCEPT !.err = "ValueError"]
    ELSE [res EXCEPT !.loss = @ - Dot(make_onehot(label, LossOneHotSize), LogVec(yt))]

RECURSIVE LossLoop(_, _, _, _, _)
LossLoop(res, t, xx, dd, yy) ==
    IF t >= Len(xx) THEN res
    ELSE LossLoop(LossTerm(res, PyGet(dd, t), PyGet(yy, t)), t + 1, xx, dd, yy)

compute_loss(xx, dd) ==
    LossLoop([loss |-> 0, err |-> "none"], 0, xx, dd, predict(xx).y)

compute_loss_np(xx, dd) ==
    LET yy == predict(xx).y
        t == Len(xx) - 1
    IN LossTerm([loss |-> 0, err |-> "none"], PyGet(dd, 0), PyGet(yy, t))

(***************************************************************************)
(* Spec: one RNN instance and the calls made on it.                        *)
(***************************************************************************)
TokenSeqs == UNION { [1..n -> 0..(vocab_size - 1)] : n \in 1..MaxLen }

LabelSeqs(n) == [1..n -> 0..(out_vocab_size - 1)]

NoRet == [err |-> "none", loss |-> 0, prev0 |-> <<>>, minIdx |-> 0, iters |-> 0, minS |-> 0]

\* no train call is running
TrIdle == [pc |-> "idle"]

InitRNN(dims) ==
    /\ vocab_size = dims[1]
    /\ hidden_dims = dims[2]
    /\ out_vocab_size = dims[3]
    /\ U = PatternMat(dims[2], dims[2], dims[4])
    /\ V = PatternMat(dims[2], dims[1], dims[4] + 1)
    /\ W = PatternMat(dims[3], dims[2], dims[4] + 2)
    /\ deltaU = zeros_like(U)
    /\ deltaV = zeros_like(V)
    /\ deltaW = zeros_like(W)
    /\ x = <<>> /\ d = <<>> /\ y = <<>> /\ s = <<>> /\ steps = 0
    /\ lastOp = "init"
    /\ ret = NoRet
    /\ calls = 0

Init ==
    /\ \E dims \in Configs : InitRNN(dims)
    /\ tr = TrIdle

Predict ==
    /\ calls < MaxCalls
    /\ lastOp \notin {"predict", "compute_loss", "compute_loss_np"}
    /\ \E xx \in TokenSeqs :
         LET p == predict(xx) IN
         /\ x' = xx /\ y' = p.y /\ s' = p.s
         /\ ret' = [NoRet EXCEPT !.prev0 = p.prev0]
    /\ d' = <<>> /\ steps' = 0
    /\ lastOp' = "predict"
    /\ UNCHANGED <<vocab_size, hidden_dims, out_vocab_size, U, V, W,
                   deltaU, deltaV, deltaW, calls, tr>>

\* the accumulators after a call are those of a
SetAcc(a) == deltaU' = a.deltaU /\ deltaV' = a.deltaV /\ deltaW' = a.deltaW

\* AccCall with delta_out computed in place in the rows of y
AccCallInPlace(op, dd, st) ==
    /\ calls < MaxCalls
    /\ y # <<>>
    /\ d' = dd /\ steps' = st
    /\ lastOp' = op
    /\ calls' = calls + 1
    /\ y' = [k \in 1..Len(y) |->
                VecSub(make_onehot(PyGet(dd, Min(k, Len(dd)) - 1), out_vocab_size), y[k])]
    /\ UNCHANGED <<vocab_size, hidden_dims, out_vocab_size, U, V, W, x, s, tr>>

\* an accumulation call with the traces of the last predict(x)
AccCall(op, dd, st) ==
    /\ calls < MaxCalls
    /\ y # <<>>
    /\ d' = dd /\ steps' = st
    /\ lastOp' = op
    /\ calls' = calls + 1
    /\ UNCHANGED <<vocab_size, hidden_dims, out_vocab_size, U, V, W, x, y, s, tr>>

AccDeltas ==
    \E dd \in LabelSeqs(Len(x)) :
        /\ AccCall("acc_deltas", dd, 0)
        /\ SetAcc(acc_deltas(CurAcc, x, dd, y, s))
        /\ ret' = NoRet

AccDeltasNp ==
    \E dd \in LabelSeqs(1) :
        /\ AccCall("acc_deltas_np", dd, 0)
        /\ SetAcc(acc_deltas_np(CurAcc, x, dd, y, s))
        /\ ret' = NoRet

AccDeltasBptt ==
    \E dd \in LabelSeqs(Len(x)), st \in 0..MaxSteps :
        LET r == acc_deltas_bptt(CurAcc, x, dd, y, s, st) IN
        /\ AccCall("acc_deltas_bptt", dd, st)
        /\ SetAcc(r.acc)
        /\ ret' = [NoRet EXCEPT !.err = r.err, !.minIdx = r.minIdx,
                                !.iters = r.iters, !.minS = r.minS]

AccDeltasBpttNp ==
    \E dd \in LabelSeqs(1), st \in 0..MaxSteps :
        LET r == acc_deltas_bptt_np(CurAcc, x, dd, y, s, st) IN
        /\ AccCall("acc_deltas_bptt_np", dd, st)
        /\ SetAcc(r.acc)
        /\ ret' = [NoRet EXCEPT !.err = r.err, !.minIdx = r.minIdx,
                                !.iters = r.iters, !.minS = r.minS]

\* A loss call predicts for its own x and returns none of the traces.  It reads
\* the weights alone, which no call of this specification changes, so the loss
\* calls are made on the instance as constructed.
LossCall(op, xx, dd, res) ==
    /\ lastOp = "init"
    /\ x' = xx /\ d' = dd /\ steps' = 0
    /\ y' = <<>> /\ s' = <<>>
    /\ lastOp' = op
    /\ ret' = [NoRet EXCEPT !.err = res.err, !.loss = res.loss]
    /\ UNCHANGED <<vocab_size, hidden_dims, out_vocab_size, U, V, W,
                   deltaU, deltaV, deltaW, calls, tr>>

ComputeLoss ==
    \E xx \in TokenSeqs : \E dd \in LabelSeqs(Len(xx)) :
        LossCall("compute_loss", xx, dd, compute_loss(xx, dd))

ComputeLossNp ==
    \E xx \in TokenSeqs : \E dd \in LabelSeqs(1) :
        LossCall("compute_loss_np", xx, dd, compute_loss_np(xx, dd))

Next ==
    \/ Predict
    \/ AccDeltas
    \/ AccDeltasNp
    \/ AccDeltasBptt
    \/ AccDeltasBpttNp
    \/ ComputeLoss
    \/ ComputeLossNp

Spec == Init /\ [][Next]_vars

(***************************************************************************)
(* Properties of the RNN's methods and of the loss functions (Spec).       *)
(***************************************************************************)

\* C1: after acc_deltas_np or acc_deltas_bptt_np the three accumulators hold
\* what the same call leaves when it starts from all-zero accumulators: the
\* result does not depend on what the accumulators held before the call.
C1_SingleLabelOverwrites ==
    /\ lastOp = "acc_deltas_np" => CurAcc = acc_deltas_np(ZeroAcc, x, d, y, s)
    /\ lastOp = "acc_deltas_bptt_np" =>
           CurAcc = acc_deltas_bptt_np(ZeroAcc, x, d, y, s, steps).acc

\* C2: a call of acc_deltas_bptt reads x at no index t - t_ below 0 and
\* raises no IndexError.
C2_LookBackClamped ==
    lastOp = "acc_deltas_bptt" => ret.minIdx >= 0 /\ ret.err = "none"

\* C8: predict returns s with len(x) + 1 rows of hidden_dims entries and y
\* with len(x) rows of out_vocab_size entries; the row read as the previous
\* state at t = 0 was the zero vector and s[-1], the row s[len(x)], is the
\* zero vector on return.
C8_PredictTraces ==
    lastOp = "predict" =>
        /\ Len(s) = Len(x) + 1
        /\ Len(y) = Len(x)
        /\ \A k \in 1..Len(s) : Len(s[k]) = hidden_dims
        /\ \A k \in 1..Len(y) : Len(y[k]) = out_vocab_size
        /\ ret.prev0 = Zeros(hidden_dims)
        /\ PyGet(s, -1) = Zeros(hidden_dims)
        /\ s[Len(x) + 1] = Zeros(hidden_dims)

C8_Witness ==
    /\ lastOp = "predict"
    /\ Len(x) >= 2
    /\ \A k \in 1..Len(x) : s[k] # Zeros(hidden_dims)

\* C9: a call of acc_deltas leaves each accumulator equal to what it held
\* before plus the contribution of the call, which is what the call leaves
\* from all-zero accumulators; and two calls made one after the other leave the
\* same accumulators in either order.
C9_AccDeltasAdds ==
    [][lastOp' = "acc_deltas" =>
         /\ CurAcc' = AccAdd(CurAcc, acc_deltas(ZeroAcc, x', d', y', s'))
         /\ \A d2 \in LabelSeqs(Len(x')) :
               acc_deltas(acc_deltas(CurAcc, x', d', y', s'), x', d2, y', s')
                 = acc_deltas(acc_deltas(CurAcc, x', d2, y', s'), x', d', y', s')]_vars

C9_Witness ==
    /\ lastOp = "acc_deltas"
    /\ calls = 2
    /\ acc_deltas(ZeroAcc, x, d, y, s) # ZeroAcc
    /\ CurAcc # acc_deltas(ZeroAcc, x, d, y, s)
    /\ Len(x) >= 2

\* the negative log-likelihood of the labels dd under the rows of yy from row t on
RECURSIVE NLL(_, _, _)
NLL(t, dd, yy) ==
    IF t >= Len(dd) THEN 0
    ELSE NegLog1(PyGet(yy, t)[PyGet(dd, t) + 1]) + NLL(t + 1, dd, yy)

\* C10: compute_loss returns the sum over t of -log(y[t][d[t]]) and
\* compute_loss_np returns -log(y[len(x)-1][d[0]]), for every model and every
\* desired index below out_vocab_size.
C10_LossIsNLL ==
    /\ lastOp = "compute_loss" =>
           ret.err = "none" /\ ret.loss = NLL(0, d, predict(x).y)
    /\ lastOp = "compute_loss_np" =>
           ret.err = "none"
           /\ ret.loss = NegLog1(PyGet(predict(x).y, Len(x) - 1)[PyGet(d, 0) + 1])

\* C13: acc_deltas_bptt with steps = 0 leaves the accumulators as acc_deltas
\* leaves them, from the same accumulators, weights and inputs.
C13_BpttZeroIsAccDeltas ==
    [][(lastOp' = "acc_deltas_bptt" /\ steps' = 0) =>
         /\ ret'.err = "none"
         /\ CurAcc' = acc_deltas(CurAcc, x', d', y', s')]_vars

C13_Witness ==
    /\ lastOp = "acc_deltas_bptt" /\ steps = 0
    /\ calls = 2
    /\ Len(x) >= 2
    /\ CurAcc # acc_deltas(ZeroAcc, x, d, y, s)
    /\ acc_deltas(ZeroAcc, x, d, y, s).deltaV # zeros_like(V)

\* C14: acc_deltas_bptt_np makes min(steps + 1, len(x) - 1) passes of its
\* inner loop, reads x at no index below 1 and s at no index below 0 in them,
\* and for len(x) = 1 makes no pass and leaves deltaV and deltaU as they were.
C14_NpLoopClamped ==
    [][lastOp' = "acc_deltas_bptt_np" =>
         /\ ret'.err = "none"
         /\ ret'.iters = Min(steps' + 1, Len(x') - 1)
         /\ ret'.iters > 0 => (ret'.minIdx >= 1 /\ ret'.minS >= 0)
         /\ Len(x') = 1 => (ret'.iters = 0 /\ deltaV' = deltaV /\ deltaU' = deltaU)]_vars

C14_Witness ==
    /\ lastOp = "acc_deltas_bptt_np"
    /\ Len(x) = 2 /\ steps = 2
    /\ ret.iters = 1 /\ ret.minIdx = 1 /\ ret.minS = 0

AccOps == {"acc_deltas", "acc_deltas_np", "acc_deltas_bptt", "acc_deltas_bptt_np"}

\* C15: an accumulation call changes none of U, V, W, nor the traces y and s
\* and the sequence x it was given; predict changes neither the weights nor
\* the accumulators.
C15_Frame ==
    [][/\ lastOp' \in AccOps =>
            (U' = U /\ V' = V /\ W' = W /\ y' = y /\ s' = s /\ x' = x)
       /\ lastOp' = "predict" =>
            (U' = U /\ V' = V /\ W' = W /\ CurAcc' = CurAcc)]_vars

C15_Witness ==
    /\ lastOp \in AccOps
    /\ calls = 2
    /\ CurAcc # ZeroAcc
    /\ Len(x) >= 2

IsMatrix(M, rows, cols) == Len(M) = rows /\ \A i \in 1..Len(M) : Len(M[i]) = cols

\* C16: deltaU is hidden_dims x hidden_dims, deltaV is hidden_dims x
\* vocab_size and deltaW is out_vocab_size x hidden_dims, the shapes of U, V
\* and W, after construction and after every accumulation call; after
\* construction the three are all-zero.
C16_AccShapes ==
    /\ IsMatrix(deltaU, hidden_dims, hidden_dims) /\ IsMatrix(U, hidden_dims, hidden_dims)
    /\ IsMatrix(deltaV, hidden_dims, vocab_size) /\ IsMatrix(V, hidden_dims, vocab_size)
    /\ IsMatrix(deltaW, out_vocab_size, hidden_dims) /\ IsMatrix(W, out_vocab_size, hidden_dims)
    /\ lastOp = "init" =>
          /\ deltaU = ZerosMat(hidden_dims, hidden_dims)
          /\ deltaV = ZerosMat(hidden_dims, vocab_size)
          /\ deltaW = ZerosMat(out_vocab_size, hidden_dims)

C16_Witness ==
    /\ lastOp = "acc_deltas_np"
    /\ calls = 2
    /\ hidden_dims # out_vocab_size /\ hidden_dims # vocab_size
    /\ deltaW # zeros_like(W) /\ deltaV # zeros_like(V)

\* acc_deltas_bptt with the inner loop stopped at the start of the sequence:
\* t_ runs over 0..min(steps, t)
RECURSIVE ClampedBptt(_, _, _, _, _, _, _)
ClampedBptt(r, t, xx, dd, yy, ss, st) ==
    IF t < 0 THEN r
    ELSE LET delta_out == DeltaOut(t, PyGet(dd, t), yy)
             r1 == [r EXCEPT !.acc = Acc(r.acc.deltaU, r.acc.deltaV,
                                         MatAdd(r.acc.deltaW, Outer(delta_out, PyGet(ss, t)))),
                             !.delta_in = DeltaIn(t, delta_out, ss)]
         IN ClampedBptt(InnerLoop(r1, t, 0, Min(st, t) + 1, xx, ss),
                        t - 1, xx, dd, yy, ss, st)

\* C18: with the traces of predict(x) and steps <= len(x), acc_deltas_bptt
\* raises no IndexError and leaves the accumulators as the clamped loop leaves
\* them.
C18_UnclampedAddsZero ==
    [][(lastOp' = "acc_deltas_bptt" /\ steps' <= Len(x')) =>
         /\ ret'.err = "none"
         /\ CurAcc' = ClampedBptt(BpttStart(CurAcc, x'), Len(x') - 1,
                                  x', d', y', s', steps').acc]_vars

C18_Witness ==
    /\ lastOp = "acc_deltas_bptt"
    /\ steps = 2 /\ Len(x) = 2
    /\ ret.minIdx = -2
    /\ deltaV # zeros_like(V) /\ deltaU # zeros_like(U)

(***************************************************************************)
(* Runner.train and Runner.train_np.                                       *)
(*                                                                         *)
(* The frame tr of the call holds the parameters and locals of the source  *)
(* under their names, the place reached (pc), and what the model was asked *)
(* to do.  The model's parameters are kept as a version number that every  *)
(* apply_deltas advances; a dev loss is a number drawn from 0..MaxLoss     *)
(* each time the parameters have changed since it was last measured.       *)
(* Recorded for the properties: lastAcc, lastSteps (the accumulation       *)
(* method called last), updated / lastScale (the update made by the last   *)
(* instance or epoch end), updates (updates made in the epoch), sinceApply *)
(* (instances accumulated since the last apply_deltas), seen (the dev      *)
(* losses measured), smallRun (epochs in a row, up to the last one, whose  *)
(* change of loss was below min_change), nSaves, nRestores, savedLoss (the *)
(* dev loss of the parameters in the snapshot).                            *)
(***************************************************************************)
Losses == 0..MaxLoss

NoLoss == MaxLoss + 1

Abs(n) == IF n < 0 THEN -n ELSE n

\* learning_rate=0.5, kept as the fraction <<1, 2>>
DefaultRate == <<1, 2>>

\* AnnealedRate computed from the rate of the epoch before in place of a0
AnnealedCompounded(a0, anneal, epoch) ==
    IF anneal > 0
    THEN <<tr.learning_rate[1] * anneal, tr.learning_rate[2] * (epoch + anneal)>>
    ELSE a0

\* a0 / ((epoch + 0.0 + anneal) / anneal), or a0, as a fraction
AnnealedRate(a0, anneal, epoch) ==
    IF anneal > 0 THEN <<a0[1] * anneal, a0[2] * (epoch + anneal)>> ELSE a0

\* the accumulation method the instance loop calls
AccMethod(variant, back_steps) ==
    IF back_steps = 0
    THEN (IF variant = "train" THEN "acc_deltas" ELSE "acc_deltas_np")
    ELSE (IF variant = "train" THEN "acc_deltas_bptt" ELSE "acc_deltas_bptt_np")

\* acc_deltas_bptt reads x[t - t_] for t < len and t_ <= steps and raises
\* IndexError below -len; acc_deltas_bptt_np stops at t_ < t
AccRaises(method, len, st) ==
    /\ method = "acc_deltas_bptt"
    /\ \E t \in 0..(len - 1), t_ \in 0..st : t_ < InnerBound(st, t) /\ t - t_ < -len

\* Improved with <= in place of <
ImprovedOrEqual(loss, best_loss) == loss <= best_loss

\* Improved with > in place of <
ImprovedReversed(loss, best_loss) == loss > best_loss

\* if loss < best_loss
Improved(loss, best_loss) == loss < best_loss

\* if i % batch_size == 0
BatchBoundary(i, batch_size) == i % batch_size = 0

\* Model.save_params: the snapshot is a copy of the parameters held now
SaveParams(f) ==
    [f EXCEPT !.saved = f.params,
              !.savedLoss = IF f.measuredAt = f.params THEN f.measured ELSE NoLoss,
              !.nSaves = @ + 1]

\* Model.set_best_params: the parameters become those of the snapshot
SetBestParams(f) == [f EXCEPT !.params = f.saved, !.nRestores = @ + 1]

\* Model.scale_gradients_for_batch(k) followed by Model.apply_deltas(rate)
BatchUpdate(f, k) ==
    [f EXCEPT !.params = f.nextParams, !.nextParams = @ + 1,
              !.updated = TRUE, !.lastScale = k, !.lastOver = f.sinceApply,
              !.updates = @ + 1, !.sinceApply = 0]

TrainInit ==
    \E variant \in {"train", "train_np"}, n \in 1..MaxN, batch_size \in 1..MaxN,
       back_steps \in 0..MaxBackSteps, epochs \in 0..MaxEpochs,
       anneal \in 0..MaxAnneal :
        tr = [pc |-> "call", variant |-> variant, N |-> n, batch_size |-> batch_size,
              back_steps |-> back_steps, epochs |-> epochs, anneal |-> anneal,
              min_change |-> 1, a0 |-> DefaultRate, learning_rate |-> DefaultRate,
              epoch |-> 0, i |-> 0,
              prev_loss |-> NoLoss, best_loss |-> NoLoss, loss |-> NoLoss,
              min_change_count |-> -1, best_epoch |-> 0, best_acc |-> "unbound",
              params |-> 0, nextParams |-> 1, saved |-> -1, savedLoss |-> NoLoss,
              measured |-> NoLoss, measuredAt |-> -1,
              nSaves |-> 0, nRestores |-> 0,
              lastAcc |-> "none", lastSteps |-> 0,
              updated |-> FALSE, lastScale |-> 0, lastOver |-> 0,
              updates |-> 0, sinceApply |-> 0,
              seen |-> {}, smallRun |-> 0,
              err |-> "none", retval |-> NoLoss]

InitTrain ==
    /\ InitRNN(<<2, 1, 2, 0>>)
    /\ TrainInit

\* the dev loss of the parameters held now: the one measured, if they have
\* not changed since, and any loss otherwise
DevLosses(f) == IF f.measuredAt = f.params THEN {f.measured} ELSE Losses

Measure(f, l) == [f EXCEPT !.measured = l, !.measuredAt = f.params, !.seen = @ \cup {l}]

\* up to the epoch loop: the initial loss and the first snapshot
TrainBegin ==
    /\ tr.pc = "call"
    /\ \E initial_loss \in DevLosses(tr) :
         LET f1 == Measure(tr, initial_loss)
             f2 == [f1 EXCEPT !.prev_loss = initial_loss, !.min_change_count = -1,
                              !.a0 = f1.learning_rate, !.best_loss = initial_loss]
             f3 == [SaveParams(f2) EXCEPT !.best_epoch = 0, !.pc = "loop"]
         IN tr' = f3
    /\ UNCHANGED rnnVars

\* the head of an epoch: the learning rate of the epoch
EpochBegin ==
    /\ tr.pc = "loop"
    /\ tr.epoch < tr.epochs
    /\ tr' = [tr EXCEPT !.learning_rate = AnnealedRate(tr.a0, tr.anneal, tr.epoch),
                        !.i = 0, !.updates = 0, !.updated = FALSE, !.pc = "inst"]
    /\ UNCHANGED rnnVars

\* one training instance x_p of some length: predict, accumulate, and the
\* update at a batch boundary
Instance ==
    /\ tr.pc = "inst"
    /\ tr.i < tr.N
    /\ \E len \in 1..MaxLen :
         LET method == AccMethod(tr.variant, tr.back_steps)
             f1 == [tr EXCEPT !.lastAcc = method, !.lastSteps = tr.back_steps,
                              !.updated = FALSE]
         IN IF AccRaises(method, len, tr.back_steps)
            THEN tr' = [f1 EXCEPT !.pc = "raised", !.err = "IndexError"]
            ELSE LET f2 == [f1 EXCEPT !.sinceApply = @ + 1]
                     f3 == IF BatchBoundary(tr.i, tr.batch_size)
                           THEN BatchUpdate(f2, tr.batch_size) ELSE f2
                 IN tr' = [f3 EXCEPT !.i = @ + 1]
    /\ UNCHANGED rnnVars

\* the number of consecutive small changes that ends the training
StopCount == 2

\* after the instances of an epoch: the update of the last partial batch, the
\* dev loss, the snapshot on a new best loss, and the early stop
EpochEnd ==
    /\ tr.pc = "inst"
    /\ tr.i = tr.N
    /\ LET f0 == [tr EXCEPT !.updated = FALSE]
           f1 == IF tr.N % tr.batch_size > 0
                 THEN BatchUpdate(f0, tr.N % tr.batch_size) ELSE f0
       IN \E loss \in DevLosses(f1) :
            LET f2 == [Measure(f1, loss) EXCEPT !.loss = loss]
                f3 == IF Improved(loss, f2.best_loss)
                      THEN [SaveParams([f2 EXCEPT !.best_loss = loss]) EXCEPT
                               !.best_acc = "bound", !.best_epoch = f2.epoch]
                      ELSE f2
                small == Abs(f3.prev_loss - loss) < f3.min_change
                f4 == [f3 EXCEPT !.min_change_count = IF small THEN @ + 1 ELSE 0,
                                 !.smallRun = IF small THEN @ + 1 ELSE 0]
            IN IF f4.min_change_count > StopCount
               THEN tr' = [f4 EXCEPT !.pc = "after"]
               ELSE tr' = [f4 EXCEPT !.prev_loss = loss, !.epoch = @ + 1, !.pc = "loop"]
    /\ UNCHANGED rnnVars

\* after the epoch loop: the report, the restore and the return.  train_np
\* reports best_acc, which is bound only by an epoch that improved the loss.
TrainEnd ==
    /\ \/ tr.pc = "after"
       \/ tr.pc = "loop" /\ tr.epoch >= tr.epochs
    /\ IF tr.variant = "train_np" /\ tr.best_acc = "unbound"
       THEN tr' = [tr EXCEPT !.pc = "raised", !.err = "UnboundLocalError"]
       ELSE tr' = [SetBestParams(tr) EXCEPT !.pc = "returned", !.retval = tr.best_loss]
    /\ UNCHANGED rnnVars

NextTrain ==
    \/ TrainBegin
    \/ EpochBegin
    \/ Instance
    \/ EpochEnd
    \/ TrainEnd

SpecTrain == InitTrain /\ [][NextTrain]_vars

(***************************************************************************)
(* Properties of Runner.train and Runner.train_np (SpecTrain).             *)
(***************************************************************************)
MinSet(S) == CHOOSE m \in S : \A k \in S : m <= k

\* an epoch has run to its end and the next has not begun
EpochDone == tr.loss # NoLoss /\ tr.pc \in {"loop", "after"}

\* C3: in an epoch the weights are updated after the instance at position c
\* (counted from 1) exactly when c is a multiple of batch_size, and once more
\* after the last instance when N mod batch_size > 0: ceil(N / batch_size)
\* updates in the epoch.
C3_UpdatePerBatch ==
    /\ (tr.pc = "inst" /\ tr.i >= 1) => (tr.updated <=> tr.i % tr.batch_size = 0)
    /\ EpochDone => tr.updates = (tr.N + tr.batch_size - 1) \div tr.batch_size

\* C4: the instance loop calls acc_deltas / acc_deltas_np whenever
\* back_steps < 2 and the BPTT methods, with steps = back_steps, only when
\* back_steps >= 2.
C4_BackStepsRouting ==
    tr.lastAcc # "none" =>
        /\ tr.back_steps < 2 => tr.lastAcc \in {"acc_deltas", "acc_deltas_np"}
        /\ tr.back_steps >= 2 =>
              tr.lastAcc \in {"acc_deltas_bptt", "acc_deltas_bptt_np"}
              /\ tr.lastSteps = tr.back_steps

\* C5: at the end of an epoch the training stops early exactly when the
\* change of the dev loss has been below min_change for more than 2 epochs in
\* a row, the first epochs of the run included: it stops early only then, and
\* it goes on to a further epoch only when that is not so.
C5_EarlyStop ==
    /\ (EpochDone /\ tr.pc = "after") => tr.smallRun > 2
    /\ (EpochDone /\ tr.pc = "loop" /\ tr.epoch < tr.epochs) => tr.smallRun <= 2

\* a step of EpochEnd
EpochEndStep == tr.pc = "inst" /\ tr'.pc \in {"loop", "after"}

\* C6: train restores the snapshot once, as its last act, and the snapshot is
\* the one of the most recent save_params, taken of the parameters whose dev
\* loss is the best loss returned; save_params is called once before the first
\* epoch and then in the epochs whose dev loss is below every loss seen
\* before, and in no other.
C6_BestSnapshotRestored ==
    /\ [](tr.pc = "returned" =>
            /\ tr.nRestores = 1
            /\ tr.params = tr.saved
            /\ tr.savedLoss = tr.retval
            /\ tr.retval = tr.best_loss)
    /\ [](tr.pc \notin {"returned", "idle"} => tr.nRestores = 0)
    /\ [](tr.pc = "loop" /\ tr.epoch = 0 => tr.nSaves = 1)
    /\ [][/\ EpochEndStep =>
               IF tr'.loss < MinSet(tr.seen)
               THEN tr'.nSaves = tr.nSaves + 1 /\ tr'.saved = tr'.params
               ELSE tr'.nSaves = tr.nSaves /\ tr'.saved = tr.saved
          /\ (tr.pc # "call" /\ ~EpochEndStep) =>
               tr'.nSaves = tr.nSaves /\ tr'.saved = tr.saved]_vars

C6_Witness ==
    /\ tr.pc = "returned" /\ tr.variant = "train"
    /\ tr.nSaves = 3
    /\ tr.saved < tr.nextParams - 1
    /\ tr.epoch >= 3

\* C7: train returns the least of the initial dev loss and the dev losses of
\* the epochs run (the initial dev loss when epochs = 0), and best_loss never
\* increases.
C7_ReturnsLeastLoss ==
    /\ [](tr.pc = "returned" => tr.retval = MinSet(tr.seen))
    /\ [](tr.pc = "returned" /\ tr.epochs = 0 => tr.seen = {tr.retval})
    /\ [][tr.pc # "call" => tr'.best_loss <= tr.best_loss]_vars

C7_Witness ==
    /\ tr.pc = "returned" /\ tr.variant = "train"
    /\ Cardinality(tr.seen) = 3
    /\ tr.loss > tr.retval
    /\ tr.best_epoch >= 1

\* rates are fractions <<numerator, denominator>> with positive denominators
RateEq(a, b) == a[1] * b[2] = b[1] * a[2]

RateLess(a, b) == a[1] * b[2] < b[1] * a[2]

\* a step of EpochBegin
EpochBeginStep == tr.pc = "loop" /\ tr'.pc = "inst"

\* C11: the learning rate of epoch e is, when anneal > 0, the initial rate
\* times anneal / (e + anneal): the initial rate in epoch 0 and less than the
\* rate of the epoch before in every later epoch; when anneal = 0 it is the
\* initial rate in every epoch.
C11_AnnealedRate ==
    [][EpochBeginStep =>
         IF tr.anneal > 0
         THEN /\ RateEq(tr'.learning_rate,
                        <<DefaultRate[1] * tr.anneal, DefaultRate[2] * (tr.epoch + tr.anneal)>>)
              /\ tr.epoch = 0 => RateEq(tr'.learning_rate, DefaultRate)
              /\ tr.epoch > 0 => RateLess(tr'.learning_rate, tr.learning_rate)
         ELSE RateEq(tr'.learning_rate, DefaultRate)]_vars

C11_Witness ==
    /\ tr.pc = "inst"
    /\ tr.anneal > 0
    /\ tr.epoch >= 2
    /\ RateLess(tr.learning_rate, DefaultRate)

\* C12: every update divides the accumulators by the number of instances
\* whose gradients were accumulated since the update before it (or since the
\* start of the training).
C12_ScaleIsBatchCount ==
    tr.updated => tr.lastScale = tr.lastOver

\* C17: train_np reads no unassigned variable after the epoch loop.
C17_TrainNpReturns ==
    tr.variant = "train_np" => tr.err # "UnboundLocalError"

=============================================================================
